---- MODULE Spec2Model ----
(***************************************************************************)
(* Model of the Echo/GORM user service of src/main.go: five HTTP handlers  *)
(* (getUsers, getUser, createUser, updateUser, deleteUser) over one table  *)
(* of User rows.                                                           *)
(*                                                                         *)
(* Two specifications are given.  Spec runs the requests one after the     *)
(* other: every action is one whole handler.  ConcSpec runs NProcs         *)
(* request workers whose handlers are split at their store calls, which is *)
(* where the HTTP server interleaves them.                                 *)
(*                                                                         *)
(* The store is assumed reachable: a store call fails only for a reason    *)
(* the table itself gives (a primary-key conflict on insert).  Which       *)
(* database backs it (DB_TYPE) is not modelled; ids are auto-incremented.  *)
(***************************************************************************)
EXTENDS Integers, Sequences, FiniteSets, TLC

(* ---------------------------- bounds ----------------------------------- *)

\* Largest id the store hands out or a body carries.
MaxID == 2

\* Number of concurrent request workers of ConcSpec.
NProcs == 2

Procs == 1..NProcs

(* ---------------------------- data ------------------------------------- *)

Names == {"", "Ada", "Grace"}

Birthdays == {"", "1815-12-10", "1816-01-01"}

\* The zero value of the struct User.
ZeroUser == [ID |-> 0, Name |-> "", Birthday |-> ""]

User == [ID : 0..MaxID, Name : Names, Birthday : Birthdays]

\* A request body, as echo's Bind sees it: ok = FALSE is a body that does not
\* decode into User (malformed JSON, or an ID that is no unsigned integer);
\* a field that is absent from the JSON decodes to its zero value.
Bodies == [ok : {TRUE}, ID : 0..MaxID, Name : Names, Birthday : Birthdays]
          \cup {[ok |-> FALSE, ID |-> 0, Name |-> "", Birthday |-> ""]}

\* The bodies of the update requests: without an ID, or carrying the ID MaxID
\* (updateUser reads only Name and Birthday of the decoded body).
UpdateBodies == {b \in Bodies : b.ID \in {0, MaxID}}

\* c.Bind(user) on a fresh User.
Bind(body) ==
    IF body.ok
    THEN [err |-> FALSE,
          user |-> [ID |-> body.ID, Name |-> body.Name, Birthday |-> body.Birthday]]
    ELSE [err |-> TRUE, user |-> ZeroUser]

(* ------------------------ strconv.Atoi --------------------------------- *)

\* A path parameter is a sequence of one-character strings.
Digits == <<"0", "1", "2", "3", "4", "5", "6", "7", "8", "9">>

IsDigit(ch) == \E i \in 1..10 : Digits[i] = ch

DigitVal(ch) == (CHOOSE i \in 1..10 : Digits[i] = ch) - 1

AllDigits(s) == \A i \in 1..Len(s) : IsDigit(s[i])

RECURSIVE DigitsVal(_, _)
DigitsVal(s, n) ==
    IF s = <<>> THEN n ELSE DigitsVal(Tail(s), n * 10 + DigitVal(Head(s)))

\* strconv.Atoi for inputs short enough for its fast path (fewer than 10
\* characters): an optional sign, then at least one digit, digits only.
Atoi(s) ==
    LET signed == s # <<>> /\ Head(s) \in {"-", "+"}
        ds     == IF signed THEN Tail(s) ELSE s
    IN  IF ds = <<>> \/ ~AllDigits(ds)
        THEN [err |-> TRUE, val |-> 0]
        ELSE [err |-> FALSE,
              val |-> IF signed /\ Head(s) = "-"
                      THEN 0 - DigitsVal(ds, 0) ELSE DigitsVal(ds, 0)]

\* The decimal text of a small natural number.
Itoa(n) == IF n < 10 THEN <<Digits[n + 1]>>
           ELSE <<Digits[(n \div 10) + 1], Digits[(n % 10) + 1]>>

\* The :id path parameters the requests are drawn from.
PathIds == {Itoa(n) : n \in 1..(MaxID + 1)} \cup {<<"a", "b", "c">>, <<"-", "1">>}

(* --------------------------- the store --------------------------------- *)

VARIABLES
    users,    \* the rows of table users: a set of User with ID > 0
    seq,      \* the store's id sequence: the largest id ever inserted
    req,      \* Spec: the request handled last
    resp,     \* Spec: its response
    pc,       \* ConcSpec: where each worker's handler stands
    loc,      \* ConcSpec: the handler's local variable user
    preq,     \* ConcSpec: each worker's current request
    presp,    \* ConcSpec: each worker's last response
    conc      \* ConcSpec: the workers whose requests overlapped the worker's current one

vars == <<users, seq, req, resp, pc, loc, preq, presp, conc>>

Max(a, b) == IF a >= b THEN a ELSE b

IdsOf(rows) == {u.ID : u \in rows}

MaxIdOf(rows) == IF rows = {} THEN 0 ELSE CHOOSE m \in IdsOf(rows) : \A i \in IdsOf(rows) : i <= m

\* db.First(&user, id): SELECT ... WHERE id = <id> LIMIT 1.
First(rows, id) ==
    IF \E u \in rows : u.ID = id
    THEN [err |-> FALSE, user |-> CHOOSE u \in rows : u.ID = id]
    ELSE [err |-> TRUE, user |-> ZeroUser]

\* The id the store assigns to a row inserted without one: the next of its
\* sequence (an auto-incremented integer primary key).
NextId(rows, sq) ==
    Max(sq, MaxIdOf(rows)) + 1

\* db.Create(user): INSERT.  A zero ID is assigned by the store; a non-zero ID
\* is inserted as given.  A primary-key conflict is an error and inserts
\* nothing.  The sequence stays at the largest id ever inserted.
Create(rows, sq, user) ==
    LET auto == user.ID = 0
        id   == IF auto THEN NextId(rows, sq) ELSE user.ID
        row  == [user EXCEPT !.ID = id]
        dup  == id \in IdsOf(rows)
        sq2  == IF dup THEN sq ELSE Max(sq, id)
    IN  [err   |-> dup,
         rows  |-> IF dup THEN rows ELSE rows \cup {row},
         seq   |-> sq2,
         user  |-> IF dup THEN user ELSE row]

\* db.Save(&user): with a zero ID an INSERT; otherwise UPDATE of all columns
\* WHERE id = user.ID, and when that matched no row, INSERT ... ON CONFLICT
\* DO UPDATE of the whole row.
Save(rows, sq, user) ==
    IF user.ID = 0
    THEN Create(rows, sq, user)
    ELSE IF user.ID \in IdsOf(rows)
         THEN [err  |-> FALSE,
               rows |-> {u \in rows : u.ID # user.ID} \cup {user},
               seq  |-> sq,
               user |-> user]
         ELSE Create(rows, sq, user)

DeleteKeepsRow(rows, user) == [err |-> FALSE, rows |-> rows]

\* db.Delete(&user): DELETE ... WHERE id = user.ID; refused without a key.
Delete(rows, user) ==
    IF user.ID = 0
    THEN [err |-> TRUE, rows |-> rows]
    ELSE [err |-> FALSE, rows |-> {u \in rows : u.ID # user.ID}]

\* The orders in which SELECT * FROM users may return the rows.
Orderings(rows) ==
    {f \in [1..Cardinality(rows) -> rows] :
        \A i, j \in 1..Cardinality(rows) : i # j => f[i] # f[j]}

FindLeavesNil(ord) == [err |-> FALSE, null |-> ord = <<>>, items |-> ord]

\* db.Find(&users) into the nil slice of getUsers, rows arriving in order ord:
\* the destination is replaced by a made (non-nil) slice before the rows are
\* appended, so it is non-nil also when there are none.
Find(ord) == [err |-> FALSE, null |-> FALSE, items |-> ord]

(* --------------------------- responses --------------------------------- *)

\* The slice a handler holds before Find has run: var users []User.
NilSlice == [null |-> TRUE, items |-> <<>>]

Response(status, error, message, user, list) ==
    [status |-> status, error |-> error, message |-> message,
     user |-> user, users |-> list]

ErrorJSON(status, error) == Response(status, error, "", ZeroUser, NilSlice)

UserJSON(status, user) == Response(status, "", "", user, NilSlice)

NoResponse == Response(0, "", "", ZeroUser, NilSlice)

(* --------------------------- handlers ---------------------------------- *)

\* The result of a handler: the table, the sequence and the response.
Result(rows, sq, r) == [rows |-> rows, seq |-> sq, resp |-> r]

\* getUsers
GetUsers(rows, sq, ord) ==
    LET f == Find(ord)
    IN  IF f.err
        THEN Result(rows, sq, ErrorJSON(500, "Failed to fetch users"))
        ELSE Result(rows, sq,
                    Response(200, "", "", ZeroUser, [null |-> f.null, items |-> f.items]))

\* getUser
GetUser(rows, sq, idParam) ==
    LET a == Atoi(idParam)
        f == First(rows, a.val)
    IN  IF a.err THEN Result(rows, sq, ErrorJSON(400, "Invalid user ID"))
        ELSE IF f.err THEN Result(rows, sq, ErrorJSON(404, "User not found"))
        ELSE Result(rows, sq, UserJSON(200, f.user))

MissingFieldNameOnly(user) == user.Name = ""

\* The required-field check of createUser.
MissingField(user) == user.Name = "" \/ user.Birthday = ""

\* createUser
CreateUser(rows, sq, body) ==
    LET b == Bind(body)
        c == Create(rows, sq, b.user)
    IN  IF b.err THEN Result(rows, sq, ErrorJSON(400, "Invalid request"))
        ELSE IF MissingField(b.user)
             THEN Result(rows, sq, ErrorJSON(400, "Name and Birthday are required"))
        ELSE IF c.err THEN Result(c.rows, c.seq, ErrorJSON(500, "Failed to create user"))
        ELSE Result(c.rows, c.seq, UserJSON(201, c.user))

OverlayWholesale(user, updatedUser) ==
    [ID |-> user.ID, Name |-> updatedUser.Name, Birthday |-> updatedUser.Birthday]

OverlayTakesID(user, updatedUser) ==
    [ID       |-> IF updatedUser.ID # 0 THEN updatedUser.ID ELSE user.ID,
     Name     |-> IF updatedUser.Name # "" THEN updatedUser.Name ELSE user.Name,
     Birthday |-> IF updatedUser.Birthday # "" THEN updatedUser.Birthday ELSE user.Birthday]

\* "Update user fields if provided": the overlay of updateUser.
Overlay(user, updatedUser) ==
    [ID       |-> user.ID,
     Name     |-> IF updatedUser.Name # "" THEN updatedUser.Name ELSE user.Name,
     Birthday |-> IF updatedUser.Birthday # "" THEN updatedUser.Birthday ELSE user.Birthday]

\* updateUser from the loaded record on: Bind, overlay, Save.
UpdateLoaded(rows, sq, user, body) ==
    LET b == Bind(body)
        s == Save(rows, sq, Overlay(user, b.user))
    IN  IF b.err THEN Result(rows, sq, ErrorJSON(400, "Invalid request"))
        ELSE IF s.err THEN Result(s.rows, s.seq, ErrorJSON(500, "Failed to update user"))
        ELSE Result(s.rows, s.seq, UserJSON(200, s.user))

\* updateUser
UpdateUser(rows, sq, idParam, body) ==
    LET a == Atoi(idParam)
        f == First(rows, a.val)
    IN  IF a.err THEN Result(rows, sq, ErrorJSON(400, "Invalid user ID"))
        ELSE IF f.err THEN Result(rows, sq, ErrorJSON(404, "User not found"))
        ELSE UpdateLoaded(rows, sq, f.user, body)

\* deleteUser from the loaded record on.
DeleteLoaded(rows, sq, user) ==
    LET d == Delete(rows, user)
    IN  IF d.err THEN Result(rows, sq, ErrorJSON(500, "Failed to delete user"))
        ELSE Result(d.rows, sq, Response(200, "", "User deleted successfully", ZeroUser, NilSlice))

\* deleteUser
DeleteUser(rows, sq, idParam) ==
    LET a == Atoi(idParam)
        f == First(rows, a.val)
    IN  IF a.err THEN Result(rows, sq, ErrorJSON(400, "Invalid user ID"))
        ELSE IF f.err THEN Result(rows, sq, ErrorJSON(404, "User not found"))
        ELSE DeleteLoaded(rows, sq, f.user)

(* ------------------------ requests, one at a time ---------------------- *)

Request(op, idParam, body) == [op |-> op, id |-> idParam, body |-> body]

NoBody == [ok |-> TRUE, ID |-> 0, Name |-> "", Birthday |-> ""]

NoRequest == Request("none", <<>>, NoBody)

\* initDB: the table exists and is empty.
Init ==
    /\ users = {}
    /\ seq = 0
    /\ req = NoRequest
    /\ resp = NoResponse
    /\ pc = [p \in Procs |-> "idle"]
    /\ loc = [p \in Procs |-> ZeroUser]
    /\ preq = [p \in Procs |-> NoRequest]
    /\ presp = [p \in Procs |-> NoResponse]
    /\ conc = [p \in Procs |-> {}]

\* The store and the response after a request rq handled with result r.
Handled(r, rq) ==
    /\ r.seq <= MaxID
    /\ users' = r.rows
    /\ seq' = r.seq
    /\ resp' = r.resp
    /\ req' = rq

getUsers ==
    \E ord \in Orderings(users) :
        /\ Handled(GetUsers(users, seq, ord), Request("list", <<>>, NoBody))
        /\ UNCHANGED <<pc, loc, preq, presp, conc>>

getUser ==
    \E id \in PathIds :
        /\ Handled(GetUser(users, seq, id), Request("get", id, NoBody))
        /\ UNCHANGED <<pc, loc, preq, presp, conc>>

createUser ==
    \E body \in Bodies :
        /\ Handled(CreateUser(users, seq, body), Request("create", <<>>, body))
        /\ UNCHANGED <<pc, loc, preq, presp, conc>>

updateUser ==
    \E id \in PathIds, body \in UpdateBodies :
        /\ Handled(UpdateUser(users, seq, id, body), Request("update", id, body))
        /\ UNCHANGED <<pc, loc, preq, presp, conc>>

deleteUser ==
    \E id \in PathIds :
        /\ Handled(DeleteUser(users, seq, id), Request("delete", id, NoBody))
        /\ UNCHANGED <<pc, loc, preq, presp, conc>>

Next == getUsers \/ getUser \/ createUser \/ updateUser \/ deleteUser

Spec == Init /\ [][Next]_vars

(* ------------------------ requests, interleaved ------------------------ *)

\* The inputs of the interleaved requests: one id, a create body without an
\* ID, and the two partial update bodies.
ConcPathIds == {Itoa(1)}

ConcCreateBodies == {[ok |-> TRUE, ID |-> 0, Name |-> "Ada", Birthday |-> "1815-12-10"]}

ConcUpdateBodies == {[ok |-> TRUE, ID |-> 0, Name |-> "Grace", Birthday |-> ""],
                     [ok |-> TRUE, ID |-> 0, Name |-> "", Birthday |-> "1816-01-01"]}

InFlight == {q \in Procs : pc[q] # "idle"}

\* Worker p takes up request rq: it overlaps every request that is in flight.
Begin(p, rq) ==
    /\ pc[p] = "idle"
    /\ preq' = [preq EXCEPT ![p] = rq]
    /\ conc' = [q \in Procs |->
                    IF q = p THEN InFlight
                    ELSE IF q \in InFlight THEN conc[q] \cup {p} ELSE conc[q]]

\* Worker p answers with the result r of the rest of its handler.
Finish(p, r) ==
    /\ r.seq <= MaxID
    /\ users' = r.rows
    /\ seq' = r.seq
    /\ presp' = [presp EXCEPT ![p] = r.resp]
    /\ pc' = [pc EXCEPT ![p] = "idle"]
    /\ loc' = [loc EXCEPT ![p] = ZeroUser]

\* createUser: one store call.
concCreate(p) ==
    \E body \in ConcCreateBodies :
        /\ Begin(p, Request("create", <<>>, body))
        /\ Finish(p, CreateUser(users, seq, body))
        /\ UNCHANGED <<req, resp>>

\* getUser: one store call.
concGet(p) ==
    \E id \in ConcPathIds :
        /\ Begin(p, Request("get", id, NoBody))
        /\ Finish(p, GetUser(users, seq, id))
        /\ UNCHANGED <<req, resp>>

\* updateUser up to and with db.First: answers 400 or 404, or holds the record.
updateLoad(p) ==
    \E id \in ConcPathIds, body \in ConcUpdateBodies :
        LET a == Atoi(id)
            f == First(users, a.val)
        IN  /\ Begin(p, Request("update", id, body))
            /\ IF a.err \/ f.err
               THEN Finish(p, UpdateUser(users, seq, id, body))
               ELSE /\ pc' = [pc EXCEPT ![p] = "updateSave"]
                    /\ loc' = [loc EXCEPT ![p] = f.user]
                    /\ UNCHANGED <<users, seq, presp>>
            /\ UNCHANGED <<req, resp>>

\* updateUser from Bind on: overlay and db.Save of the record it holds.
updateSave(p) ==
    /\ pc[p] = "updateSave"
    /\ Finish(p, UpdateLoaded(users, seq, loc[p], preq[p].body))
    /\ UNCHANGED <<req, resp, preq, conc>>

\* deleteUser up to and with db.First.
deleteLoad(p) ==
    \E id \in ConcPathIds :
        LET a == Atoi(id)
            f == First(users, a.val)
        IN  /\ Begin(p, Request("delete", id, NoBody))
            /\ IF a.err \/ f.err
               THEN Finish(p, DeleteUser(users, seq, id))
               ELSE /\ pc' = [pc EXCEPT ![p] = "deleteExec"]
                    /\ loc' = [loc EXCEPT ![p] = f.user]
                    /\ UNCHANGED <<users, seq, presp>>
            /\ UNCHANGED <<req, resp>>

\* deleteUser: db.Delete of the record it holds.
deleteExec(p) ==
    /\ pc[p] = "deleteExec"
    /\ Finish(p, DeleteLoaded(users, seq, loc[p]))
    /\ UNCHANGED <<req, resp, preq, conc>>

ConcNext ==
    \E p \in Procs :
        \/ concCreate(p)
        \/ concGet(p)
        \/ updateLoad(p)
        \/ updateSave(p)
        \/ deleteLoad(p)
        \/ deleteExec(p)

ConcSpec == Init /\ [][ConcNext]_vars

(* ----------------------------- claims ---------------------------------- *)

\* The id a request names, when its path parameter is the decimal text of a
\* non-negative integer (digits only).
IsNonNegative(idParam) == idParam # <<>> /\ AllDigits(idParam)

PathVal(idParam) == DigitsVal(idParam, 0)

RowOf(rows, id) == CHOOSE u \in rows : u.ID = id

ValidCreate(rq) ==
    rq.op = "create" /\ rq.body.ok /\ rq.body.Name # "" /\ rq.body.Birthday # ""

\* C1: a Create whose body has a non-empty name and a non-empty birthday
\* answers 201 with a User of positive id carrying the submitted name and
\* birthday, and a Get of that id on the store it leaves answers 200 with that
\* name and birthday.
C1_CreateRoundTrip ==
    ValidCreate(req) =>
        /\ resp.status = 201
        /\ resp.user.ID > 0
        /\ LET g == GetUser(users, seq, Itoa(resp.user.ID)).resp
           IN  /\ g.status = 200
               /\ g.user.Name = req.body.Name
               /\ g.user.Birthday = req.body.Birthday

\* C2: a Create whose name or birthday is empty answers 400 and leaves the
\* table as it was, whatever ID the body carries.
C2_EmptyFieldRejected ==
    [][(req'.op = "create" /\ (req'.body.Name = "" \/ req'.body.Birthday = ""))
          => (resp'.status = 400 /\ users' = users)]_vars

C2_Witness ==
    /\ req.op = "create"
    /\ req.body.ok
    /\ req.body.Name = ""
    /\ req.body.Birthday # ""
    /\ req.body.ID # 0
    /\ resp.status = 400
    /\ users # {}

\* C3: every persisted User has a non-empty name and a non-empty birthday.
C3_NoEmptyField == \A u \in users : u.Name # "" /\ u.Birthday # ""

C3_Witness ==
    /\ req.op = "update"
    /\ resp.status = 200
    /\ req.body.Name = ""
    /\ req.body.Birthday = ""
    /\ users # {}

\* C4: a successful Update of an existing id replaces exactly the fields that
\* are non-empty in the body, keeps the others, keeps the id whatever ID the
\* body carries, changes no other row, and applied once more changes nothing.
C4_PartialUpdate ==
    [][(req'.op = "update" /\ resp'.status = 200) =>
          /\ IsNonNegative(req'.id)
          /\ PathVal(req'.id) \in IdsOf(users)
          /\ LET old == RowOf(users, PathVal(req'.id))
                 b   == req'.body
                 new == [ID       |-> old.ID,
                         Name     |-> IF b.Name = "" THEN old.Name ELSE b.Name,
                         Birthday |-> IF b.Birthday = "" THEN old.Birthday ELSE b.Birthday]
             IN  /\ users' = (users \ {old}) \cup {new}
                 /\ resp'.user = new
                 /\ UpdateUser(users', seq', req'.id, b).rows = users']_vars

C4_Witness ==
    /\ req.op = "update"
    /\ resp.status = 200
    /\ req.body.ID = MaxID
    /\ req.body.Name = "Grace"
    /\ resp.user.ID # MaxID
    /\ resp.user.Name = "Grace"
    /\ resp.user.Birthday # ""
    /\ Cardinality(users) = 2

\* C5: a Delete of an existing id answers 200 with the confirmation message
\* and removes exactly that row; an id that is absent stays absent through
\* every request but a Create, and Get, Update and Delete of it answer 404.
C5_HardDelete ==
    [][/\ (req'.op = "delete" /\ IsNonNegative(req'.id)
             /\ PathVal(req'.id) \in IdsOf(users))
          => /\ resp'.status = 200
             /\ resp'.message = "User deleted successfully"
             /\ users' = users \ {RowOf(users, PathVal(req'.id))}
             /\ PathVal(req'.id) \notin IdsOf(users')
       /\ req'.op # "create" => IdsOf(users') \subseteq IdsOf(users)
       /\ (req'.op \in {"get", "update", "delete"} /\ IsNonNegative(req'.id)
             /\ PathVal(req'.id) \notin IdsOf(users))
          => resp'.status = 404]_vars

C5_Witness ==
    /\ req.op = "delete"
    /\ resp.status = 404
    /\ IsNonNegative(req.id)
    /\ PathVal(req.id) \in 1..seq
    /\ PathVal(req.id) \notin IdsOf(users)

\* C6: Get, Update and Delete answer 400 for every path id that is not a
\* non-negative integer, and 404 only for a non-negative integer that matches
\* no row.
C6_IdValidation ==
    req.op \in {"get", "update", "delete"} =>
        /\ ~IsNonNegative(req.id) => resp.status = 400
        /\ resp.status = 404 =>
              (IsNonNegative(req.id) /\ PathVal(req.id) \notin IdsOf(users))

\* C7: every Create with a valid name and birthday succeeds with the id the
\* store chooses, the same whatever ID the body carries and different from
\* the id of every row persisted at that moment; no two rows share an id.
C7_StoreAssignedId ==
    [][ValidCreate(req') =>
          /\ resp'.status = 201
          /\ resp'.user.ID \notin IdsOf(users)
          /\ resp'.user.ID = NextId(users, seq)
          /\ \A u, v \in users' : u.ID = v.ID => u = v]_vars

\* C8: List and Get leave the table as it was, and List answers 200 with an
\* array, never null, that holds exactly the persisted Users.
C8_ReadOnlyCompleteList ==
    [][/\ req'.op \in {"list", "get"} => users' = users
       /\ req'.op = "list" =>
             /\ resp'.status = 200
             /\ ~resp'.users.null
             /\ Len(resp'.users.items) = Cardinality(users)
             /\ {resp'.users.items[i] : i \in 1..Len(resp'.users.items)} = users]_vars

C8_Witness ==
    /\ req.op = "list"
    /\ resp.status = 200
    /\ users = {}
    /\ seq > 0
    /\ ~resp.users.null
    /\ resp.users.items = <<>>

NameOnly(b) == b.ok /\ b.Name # "" /\ b.Birthday = ""

BirthdayOnly(b) == b.ok /\ b.Name = "" /\ b.Birthday # ""

\* C9: when two overlapping Updates of the same id, one with only a name and
\* the other with only a birthday, have both answered 200, the persisted row
\* carries that name and that birthday.
C9_NoLostUpdate ==
    \A p, q \in Procs :
        (/\ p # q
         /\ pc[p] = "idle" /\ pc[q] = "idle"
         /\ q \in conc[p]
         /\ preq[p].op = "update" /\ preq[q].op = "update"
         /\ preq[p].id = preq[q].id
         /\ presp[p].status = 200 /\ presp[q].status = 200
         /\ NameOnly(preq[p].body) /\ BirthdayOnly(preq[q].body))
        => \E u \in users :
              /\ u.ID = presp[p].user.ID
              /\ u.Name = preq[p].body.Name
              /\ u.Birthday = preq[q].body.Birthday

\* C10: the save step of Update adds no id to the table.
C10_SaveAddsNoId ==
    [][\A p \in Procs :
          (pc[p] = "updateSave" /\ pc'[p] = "idle")
             => IdsOf(users') \subseteq IdsOf(users)]_vars

====
